---- MODULE Spec2Model ----
(***************************************************************************)
(* Model of cdm/chg_utils.py: the probe-graph construction engine          *)
(* (ProbeGraphAdder, AseNeighborListWrapper, RadiusGraphPBCWrapper,        *)
(* calculate_grid_pos).                                                    *)
(*                                                                         *)
(* Conventions.  Node indices, grid indices and block indices are 0-based  *)
(* as in the Python source; a Python list or tensor is a TLA+ sequence, so *)
(* element i of the source is element i+1 of the sequence.  Lengths are    *)
(* integers: cells are drawn with entries that the grid dimensions divide, *)
(* so every grid position is an exact integer vector and every squared     *)
(* distance is computed exactly.  An object with optional attributes       *)
(* carries the set attrs of the attributes present: hasattr(x, "a") is     *)
(* "a" \in x.attrs.                                                        *)
(***************************************************************************)
EXTENDS Integers, Sequences, FiniteSets, TLC

\* ------------------------------------------------------------- bounds
MaxAtoms == 2
MaxCutoff == 3
MaxNumProbes == 3
MaxSliceStart == 1
MaxDirs == 2

\* --------------------------------------------------- program constants
\* mask_not_same = torch.gt(atom_distance_sqr, 0.0001): epsilon = 1/10000
EpsilonNum == 1
EpsilonDen == 10000

\* Python's None, where a string is expected and where a number is expected
None == "None"
NoneInt == 0 - 1

\* ------------------------------------------------------ vector helpers
Add3(u, v) == <<u[1] + v[1], u[2] + v[2], u[3] + v[3]>>
Sub3(u, v) == <<u[1] - v[1], u[2] - v[2], u[3] - v[3]>>
Neg3(u) == <<0 - u[1], 0 - u[2], 0 - u[3]>>
Dot3(u, v) == u[1] * v[1] + u[2] * v[2] + u[3] * v[3]
Cross3(u, v) ==
    << u[2] * v[3] - u[3] * v[2],
       u[3] * v[1] - u[1] * v[3],
       u[1] * v[2] - u[2] * v[1] >>
\* s . cell for an integer row vector s: the translation s counts, in length units
VecMat(s, cell) ==
    << s[1] * cell[1][1] + s[2] * cell[2][1] + s[3] * cell[3][1],
       s[1] * cell[1][2] + s[2] * cell[2][2] + s[3] * cell[3][2],
       s[1] * cell[1][3] + s[2] * cell[2][3] + s[3] * cell[3][3] >>
CeilDiv(a, b) == (a + b - 1) \div b
Prod3(shape) == shape[1] * shape[2] * shape[3]
\* the sequence lo, lo+1, ..., hi-1 (np.arange(lo, hi, step=1))
arange(lo, hi) == [k \in 1..(IF hi > lo THEN hi - lo ELSE 0) |-> lo + k - 1]

\* variant: the unraveling in column-major (Fortran) order
unravel_index_F(n, shape) ==
    << n % shape[1], (n \div shape[1]) % shape[2], n \div (shape[1] * shape[2]) >>

\* np.unravel_index(n, shape), row-major (C order)
unravel_index(n, shape) ==
    << n \div (shape[2] * shape[3]), (n \div shape[3]) % shape[2], n % shape[3] >>
\* unravel_index raises ValueError for an index outside 0..prod(shape)-1
unravel_ok(choice, shape) ==
    \A k \in 1..Len(choice) : choice[k] >= 0 /\ choice[k] < Prod3(shape)

GridIndices(shape) ==
    (0..(shape[1] - 1)) \X (0..(shape[2] - 1)) \X (0..(shape[3] - 1))

\* calculate_grid_pos: grid_pos[i,j,k] = (i/nx, j/ny, k/nz) . cell
calculate_grid_pos(shape, cell) ==
    [ idx \in GridIndices(shape) |->
        << (idx[1] * cell[1][1]) \div shape[1] + (idx[2] * cell[2][1]) \div shape[2]
              + (idx[3] * cell[3][1]) \div shape[3],
           (idx[1] * cell[1][2]) \div shape[1] + (idx[2] * cell[2][2]) \div shape[2]
              + (idx[3] * cell[3][2]) \div shape[3],
           (idx[1] * cell[1][3]) \div shape[1] + (idx[2] * cell[2][3]) \div shape[2]
              + (idx[3] * cell[3][3]) \div shape[3] >> ]

\* variant: the leading corner density[:n1, :n2, :n3] in place of the strided view
Downsample_corner(density, stride) ==
    LET shape == << CeilDiv(density.shape[1], stride),
                    CeilDiv(density.shape[2], stride),
                    CeilDiv(density.shape[3], stride) >>
    IN  [ shape |-> shape,
          chg   |-> [ idx \in GridIndices(shape) |-> density.chg[idx] ] ]

\* density[::stride, ::stride, ::stride]
Downsample(density, stride) ==
    LET shape == << CeilDiv(density.shape[1], stride),
                    CeilDiv(density.shape[2], stride),
                    CeilDiv(density.shape[3], stride) >>
    IN  [ shape |-> shape,
          chg   |-> [ idx \in GridIndices(shape) |->
                        density.chg[<<idx[1] * stride, idx[2] * stride, idx[3] * stride>>] ] ]

\* ------------------------------------------------- ase.Atoms (as used)
\* Atoms(numbers, positions, cell, pbc)
Atoms(numbers, positions, cell, pbc) ==
    [ numbers |-> numbers, positions |-> positions, cell |-> cell, pbc |-> pbc ]
\* atoms.copy() followed by .extend(Atoms(numbers=[0]*len(probe_pos), positions=probe_pos))
atoms_with_probes(atoms, probe_pos) ==
    [ atoms EXCEPT !.numbers = atoms.numbers \o [k \in 1..Len(probe_pos) |-> 0],
                   !.positions = atoms.positions \o probe_pos ]

\* number of unit-cell replications along one axis: ceil(radius * |cross| / |vol|),
\* the least n >= 0 with n*|vol| >= radius*|cross|, compared through the squares
RECURSIVE RepFrom(_, _, _, _)
RepFrom(n, radius, cross, vol) ==
    IF n * n * vol * vol >= radius * radius * Dot3(cross, cross)
    THEN n
    ELSE RepFrom(n + 1, radius, cross, vol)
Replications(radius, cell) ==
    LET vol == Dot3(cell[1], Cross3(cell[2], cell[3]))
    IN  << RepFrom(0, radius, Cross3(cell[2], cell[3]), vol),
           RepFrom(0, radius, Cross3(cell[3], cell[1]), vol),
           RepFrom(0, radius, Cross3(cell[1], cell[2]), vol) >>

\* torch.cartesian_prod of arange(-rep, rep+1) per axis, first axis slowest
cartesian_prod(rep) ==
    LET n1 == 2 * rep[1] + 1
        n2 == 2 * rep[2] + 1
        n3 == 2 * rep[3] + 1
    IN  [ c \in 1..(n1 * n2 * n3) |->
            << ((c - 1) \div (n2 * n3)) - rep[1],
               (((c - 1) \div n3) % n2) - rep[2],
               ((c - 1) % n3) - rep[3] >> ]

\* the 0-based indices of the entries of a number list that are (not) probes
RECURSIVE IndicesWhere(_, _, _)
IndicesWhere(numbers, k, wantProbe) ==
    IF k > Len(numbers) THEN <<>>
    ELSE (IF (numbers[k] = 0) = wantProbe THEN <<k - 1>> ELSE <<>>)
         \o IndicesWhere(numbers, k + 1, wantProbe)

\* the replication counts along the axes that are periodic, 0 along the others
\* (rep_a1, rep_a2, rep_a3 / max_rep)
MaxRep(radius, cell, pbc) ==
    LET Pick(reps) == << IF pbc[1] THEN reps[1] ELSE 0,
                         IF pbc[2] THEN reps[2] ELSE 0,
                         IF pbc[3] THEN reps[3] ELSE 0 >>
    IN  Pick(Replications(radius, cell))

\* ------------------------------------------- ase NewPrimitiveNeighborList
\* The list built by NewPrimitiveNeighborList(cutoff, skin=0.0,
\* self_interaction=False, bothways=True).build(pbc, cell, positions): with a
\* scalar cutoff, entry (j, S) is a neighbour of i when the distance from i to
\* j translated by S . cell is below the cutoff; only the pair of i with
\* itself at zero translation is left out.  Positions lie inside the cell, so
\* every such S is within the replication counts of the cutoff.
NewPrimitiveNeighborList_get_neighbors(cutoff, atoms, i) ==
    LET Scan(shifts) ==
            LET num_cells == Len(shifts)
                Row(n) ==
                    LET Entry(j, S) ==
                            LET D2(d) == [ idx |-> j, offset |-> S, d2 |-> Dot3(d, d) ]
                            IN  D2(Sub3(Add3(atoms.positions[j + 1], VecMat(S, atoms.cell)),
                                        atoms.positions[i + 1]))
                    IN  Entry((n - 1) \div num_cells, shifts[((n - 1) % num_cells) + 1])
            IN  SelectSeq([ n \in 1..(Len(atoms.positions) * num_cells) |-> Row(n) ],
                          LAMBDA e : /\ e.d2 < cutoff * cutoff
                                     /\ ~(e.idx = i /\ e.offset = <<0, 0, 0>>))
    IN  Scan(cartesian_prod(MaxRep(cutoff, atoms.cell, atoms.pbc)))

\* ------------------------------------------------ AseNeighborListWrapper
AseNeighborListWrapper(cutoff, atoms) ==
    [ impl           |-> "ASE",
      cutoff         |-> cutoff,
      atoms          |-> atoms,
      num_atoms      |-> Len(IndicesWhere(atoms.numbers, 1, FALSE)),
      atomic_numbers |-> atoms.numbers ]

\* variant: the loop body without the probe filter of lines 268-272
Ase_rows_of_atom_unfiltered(self, i, include_atomic_edges) ==
    LET Rows(kept) ==
            [ k \in 1..Len(kept) |-> [ edge |-> <<i, kept[k].idx>>, offset |-> kept[k].offset ] ]
    IN  Rows(NewPrimitiveNeighborList_get_neighbors(self.cutoff, self.atoms, i))

\* one pass of the loop body of get_all_neighbors for atom i: the (edge, offset)
\* rows it appends; the offsets are the library's, as stored
Ase_rows_of_atom(self, i, include_atomic_edges) ==
    LET Rows(kept) ==
            [ k \in 1..Len(kept) |-> [ edge |-> <<i, kept[k].idx>>, offset |-> kept[k].offset ] ]
        Filter(neigh) ==
            IF ~include_atomic_edges
            THEN SelectSeq(neigh, LAMBDA e : self.atomic_numbers[e.idx + 1] = 0)
            ELSE neigh
    IN  Rows(Filter(NewPrimitiveNeighborList_get_neighbors(self.cutoff, self.atoms, i)))

RECURSIVE Ase_rows(_, _, _)
Ase_rows(self, i, include_atomic_edges) ==
    IF i >= self.num_atoms THEN <<>>
    ELSE Ase_rows_of_atom(self, i, include_atomic_edges)
         \o Ase_rows(self, i + 1, include_atomic_edges)

\* AseNeighborListWrapper.get_all_neighbors: the cutoff argument is not read
Ase_get_all_neighbors(self, cutoff, include_atomic_edges) ==
    LET Result(rows) ==
            [ raised       |-> None,
              edge_index   |-> [ k \in 1..Len(rows) |-> rows[k].edge ],
              cell_offsets |-> [ k \in 1..Len(rows) |-> rows[k].offset ] ]
    IN  Result(Ase_rows(self, 0, include_atomic_edges))

\* ------------------------------------------------- RadiusGraphPBCWrapper
\* def __init__(self, radius, atoms, pbc = [True, True, False])
RGPBC_default_pbc == <<TRUE, TRUE, FALSE>>

\* torch.le(atom_distance_sqr, radius * radius)
mask_within_radius(d2, radius) == d2 <= radius * radius
\* torch.gt(atom_distance_sqr, 0.0001)
mask_not_same(d2) == d2 * EpsilonDen > EpsilonNum

RadiusGraphPBCWrapper(radius, atoms, pbc) ==
    LET Build(atomIdx, probeIdx, unit_cell) ==
            LET num_probes == Len(probeIdx)
                num_cells  == Len(unit_cell)
                Row(n) ==
                    \* index1 = np.repeat(indices[~is_probe], repeats=num_probes),
                    \* index2 = np.tile(indices[is_probe], reps=num_atoms),
                    \* each repeated num_cells times
                    LET Entry(i1, i2, uc) ==
                            LET D2(d) == [ index1 |-> i1, index2 |-> i2, unit_cell |-> uc,
                                           d2 |-> Dot3(d, d) ]
                            \* pos1 - (pos2 + pbc_offsets_per_atom)
                            IN  D2(Sub3(atoms.positions[i1 + 1],
                                        Add3(atoms.positions[i2 + 1],
                                             VecMat(uc, atoms.cell))))
                        Combo(combo) ==
                            Entry(atomIdx[(combo \div num_probes) + 1],
                                  probeIdx[(combo % num_probes) + 1],
                                  unit_cell[((n - 1) % num_cells) + 1])
                    IN  Combo((n - 1) \div num_cells)
                Result(kept) ==
                    [ impl       |-> "RGPBC",
                      cutoff     |-> radius,
                      edge_index |-> [ k \in 1..Len(kept) |->
                                         <<kept[k].index1, kept[k].index2>> ],
                      \* Fix offset direction
                      offsets    |-> [ k \in 1..Len(kept) |-> Neg3(kept[k].unit_cell) ] ]
            IN  Result(SelectSeq(
                    [ n \in 1..(Len(atomIdx) * num_probes * num_cells) |-> Row(n) ],
                    LAMBDA e : mask_within_radius(e.d2, radius) /\ mask_not_same(e.d2)))
    IN  Build(IndicesWhere(atoms.numbers, 1, FALSE), IndicesWhere(atoms.numbers, 1, TRUE),
              cartesian_prod(MaxRep(radius, atoms.cell, pbc)))

\* RadiusGraphPBCWrapper.get_all_neighbors: include_atomic_edges is not read
RGPBC_get_all_neighbors(self, cutoff, include_atomic_edges) ==
    IF cutoff # self.cutoff
    THEN [ raised |-> "AssertionError", edge_index |-> <<>>, cell_offsets |-> <<>> ]
    ELSE [ raised |-> None, edge_index |-> self.edge_index, cell_offsets |-> self.offsets ]

\* ------------------------------------------------------ ProbeGraphAdder
hasattr(x, name) == name \in x.attrs

\* ProbeGraphAdder.get_edges_from_choice; probe_choice is the unraveled choice
\* (a sequence of grid-index triples)
get_edges_from_choice(self, probe_choice, grid_pos, atoms, include_atomic_edges) ==
    LET Search(probe_pos) ==
            LET With(awp) ==
                    LET Result(found) ==
                            [ raised |-> found.raised, edge_index |-> found.edge_index,
                              cell_offsets |-> found.cell_offsets,
                              atomic_numbers |-> awp.numbers, probe_pos |-> probe_pos,
                              atoms |-> awp ]
                    IN  CASE self.implementation = "ASE" ->
                               Result(Ase_get_all_neighbors(
                                          AseNeighborListWrapper(self.cutoff, awp),
                                          self.cutoff, include_atomic_edges))
                          [] self.implementation = "RGPBC" ->
                               Result(RGPBC_get_all_neighbors(
                                          RadiusGraphPBCWrapper(self.cutoff, awp,
                                                                RGPBC_default_pbc),
                                          self.cutoff, include_atomic_edges))
                          [] OTHER ->
                               [ raised |-> "NotImplementedError", edge_index |-> <<>>,
                                 cell_offsets |-> <<>>, atomic_numbers |-> <<>>,
                                 probe_pos |-> <<>>, atoms |-> awp ]
            IN  With(atoms_with_probes(atoms, probe_pos))
    IN  Search([ k \in 1..Len(probe_choice) |-> grid_pos[probe_choice[k]] ])

\* variant: either of the two fields suffices
Precomputed_either(obj) ==
    /\ hasattr(obj, "probe_data")
    /\ (hasattr(obj.probe_data, "edge_index") \/ hasattr(obj.probe_data, "cell_offsets"))

\* lines 109-111: the probe graph has been precomputed
Precomputed(obj) ==
    /\ hasattr(obj, "probe_data")
    /\ hasattr(obj.probe_data, "edge_index")
    /\ hasattr(obj.probe_data, "cell_offsets")

ProbeDataAttrs ==
    { "cell", "atomic_numbers", "natoms", "pos", "target", "edge_index",
      "cell_offsets", "neighbors" }

\* lines 187-195: the attributes of the new probe_data object; probe_choice is
\* the unraveled choice the targets are read at
NewProbeData(obj, density, probe_choice, atomic_numbers, probe_pos, probe_edges, probe_offsets) ==
    [ attrs          |-> ProbeDataAttrs,
      cell           |-> obj.cell,
      atomic_numbers |-> atomic_numbers,
      natoms         |-> Len(atomic_numbers),
      pos            |-> obj.pos \o probe_pos,
      target         |-> [ k \in 1..Len(probe_choice) |-> density.chg[probe_choice[k]] ],
      edge_index     |-> probe_edges,
      cell_offsets   |-> probe_offsets,
      neighbors      |-> Len(probe_edges) ]

\* line 198: data_object.probe_data = probe_data
Attach(obj, probe_data) ==
    [ obj EXCEPT !.attrs = @ \cup {"probe_data"}, !.probe_data = probe_data ]

\* lines 124-127: the host structure, periodic along all three axes
HostAtoms(obj) == Atoms(obj.atomic_numbers, obj.pos, obj.cell, <<TRUE, TRUE, TRUE>>)

\* lines 129-133: the density the call works on, given the effective stride
WorkingDensity(obj, stride) ==
    IF stride # 1 THEN Downsample(obj.charge_density, stride) ELSE obj.charge_density

Unravel(choice, shape) == [ k \in 1..Len(choice) |-> unravel_index(choice[k], shape) ]

\* new_edges[1] += i*num_probes
ShiftTargets(edges, by) == [ k \in 1..Len(edges) |-> <<edges[k][1], edges[k][2] + by>> ]

\* num_blocks = int(np.ceil(total_probes / num_probes))
NumBlocks(total_probes, num_probes) == CeilDiv(total_probes, num_probes)

\* variant: every block full-sized, the last one included
BlockChoice_full(i, num_blocks, num_probes, total_probes) ==
    arange(i * num_probes, (i + 1) * num_probes)

\* the block of flattened indices the loop of 'all' mode takes at iteration i
BlockChoice(i, num_blocks, num_probes, total_probes) ==
    IF i = num_blocks - 1
    THEN arange(i * num_probes, total_probes)
    ELSE arange(i * num_probes, (i + 1) * num_probes)

\* ------------------------------------------------------------- inputs
\* cells whose entries every grid dimension below divides
Cells == { << <<4, 0, 0>>, <<0, 4, 0>>, <<0, 0, 4>> >> }
\* atom sites inside the cell, and the species of the k-th atom
AtomSiteList == << <<0, 0, 0>>, <<0, 0, 3>>, <<3, 1, 0>> >>
Species == <<8, 1, 6, 7>>
\* shapes of the raw density grid
Shapes == { <<2, 2, 2>>, <<4, 1, 2>> }
Implementations == { "ASE", "RGPBC", "KDTree" }
Modes == { "random", "slice", "all", "cubic" }
\* starts and steps of the index progressions the random draws are taken from
RandomStarts == { 0, 5 }
RandomSteps == { 0, 3 }

\* the raw density: every grid point holds its own value
RawDensity(shape) ==
    [ shape |-> shape,
      chg   |-> [ idx \in GridIndices(shape) |-> 100 * idx[1] + 10 * idx[2] + idx[3] + 1 ] ]

NoProbeData ==
    [ attrs |-> {}, cell |-> <<>>, atomic_numbers |-> <<>>, natoms |-> 0, pos |-> <<>>,
      target |-> <<>>, edge_index |-> <<>>, cell_offsets |-> <<>>, neighbors |-> 0 ]
\* probe_data objects a host record may already carry: one lacking
\* cell_offsets, one lacking edge_index, a complete one
StoredProbeData ==
    { [ NoProbeData EXCEPT !.attrs = {"edge_index"} ],
      [ NoProbeData EXCEPT !.attrs = {"cell_offsets"} ],
      [ NoProbeData EXCEPT !.attrs = ProbeDataAttrs ] }

\* the sites of a set S of indices into AtomSiteList, in increasing order
SitesOf(S) ==
    [ k \in 1..Cardinality(S) |->
        AtomSiteList[CHOOSE x \in S : Cardinality({ y \in S : y < x }) = k - 1] ]
PositionLists ==
    { SitesOf(S) : S \in { T \in SUBSET (1..Len(AtomSiteList)) :
                             Cardinality(T) >= 1 /\ Cardinality(T) <= MaxAtoms } }

FreshRecords ==
    { [ attrs |-> {"atomic_numbers", "pos", "cell", "charge_density"},
        atomic_numbers |-> SubSeq(Species, 1, Len(p)),
        pos |-> p, cell |-> c, charge_density |-> RawDensity(sh),
        probe_data |-> NoProbeData ] : p \in PositionLists, c \in Cells, sh \in Shapes }
\* the records of one atom at the origin
OneAtomRecords == { f \in FreshRecords : f.pos = << <<0, 0, 0>> >> }

\* ProbeGraphAdder.__init__; slice_start and stride keep their defaults
AdderOf(num_probes, cutoff, include_atomic_edges, mode, implementation) ==
    [ num_probes |-> num_probes, cutoff |-> cutoff,
      include_atomic_edges |-> include_atomic_edges, mode |-> mode, slice_start |-> 0,
      stride |-> 1, implementation |-> implementation ]

\* the (host record, adder) pairs a run starts from:
\*  - every structure with every cutoff, both strategies, both flag values;
\*  - one structure with every mode, block size and implementation name;
\*  - records that already carry a probe_data object
Scenarios ==
    { <<r, AdderOf(MaxNumProbes, c, inc, "all", impl)>> :
        r \in FreshRecords, c \in 1..MaxCutoff, inc \in BOOLEAN, impl \in {"ASE", "RGPBC"} }
    \cup
    { <<r, AdderOf(n, MaxCutoff, FALSE, m, impl)>> :
        r \in OneAtomRecords, n \in 1..MaxNumProbes, m \in Modes, impl \in Implementations }
    \cup
    { <<Attach(r, pd), AdderOf(MaxNumProbes, MaxCutoff, FALSE, m, "RGPBC")>> :
        r \in OneAtomRecords, pd \in StoredProbeData, m \in {"random", "cubic"} }

\* np.random.randint(T, size=N): the draws considered are the progressions
\* s, s+d, s+2d, ... modulo T
RandomDraws(T, N) ==
    { [ k \in 1..N |-> (s + (k - 1) * d) % T ] : s \in RandomStarts, d \in RandomSteps }

\* --------------------------------------------------------------- state
VARIABLES
    data_object,   \* the host record the adder is called on
    adder,         \* the ProbeGraphAdder instance (self)
    pc,            \* "ready", "loop" inside the loop of 'all' mode, "raised" once a
                   \* call has ended in an exception
    loc,           \* the locals of __call__
    search,        \* the last call of get_all_neighbors made by the adder
    outcome,       \* how the last __call__ ended
    pre,           \* the host record as it was when the last __call__ began
    query,         \* the last direct call of a wrapper's get_all_neighbors
    build          \* the locals and the store of a run of build_charge_lmdb

vars == <<data_object, adder, pc, loc, search, outcome, pre, query, build>>

NoLoc ==
    [ slice_start |-> 0, num_probes |-> 0, mode |-> None, stride |-> 0,
      shape |-> <<0, 0, 0>>, i |-> 0, num_blocks |-> 0, total_probes |-> 0,
      probe_choice |-> <<>>, probe_edges |-> <<>>, probe_offsets |-> <<>>,
      atomic_numbers |-> <<>>, probe_pos |-> <<>>, blocks |-> <<>> ]
NoSearch ==
    [ impl |-> None, cutoff |-> 0, include_atomic_edges |-> FALSE,
      atoms |-> Atoms(<<>>, <<>>, <<>>, <<>>), edge_index |-> <<>>, cell_offsets |-> <<>> ]
NoOutcome == [ kind |-> "none", error |-> None, names |-> None, shortcut |-> FALSE,
               searches |-> 0 ]
NoQuery == [ impl |-> None, built |-> 0, asked |-> 0, raised |-> None, returned |-> FALSE ]
\* the store: the records under their integer keys, and the value under the
\* key 'length' (NoneInt while the key is absent)
EmptyStore == [ records |-> <<>>, length |-> NoneInt ]
\* no run of build_charge_lmdb: fid is NoneInt while the name is unbound, next
\* counts the directories the loop has taken, calls lists the adder's invocations
NoBuild ==
    [ pc |-> "idle", inpath |-> <<>>, stride |-> 1, given |-> FALSE, fid |-> NoneInt,
      next |-> 0, db |-> EmptyStore, error |-> None, calls |-> <<>> ]

Init ==
    /\ \E sc \in Scenarios : data_object = sc[1] /\ adder = sc[2]
    /\ pc = "ready"
    /\ loc = NoLoc
    /\ search = NoSearch
    /\ outcome = NoOutcome
    /\ pre = data_object
    /\ query = NoQuery
    /\ build = NoBuild

\* ------------------------------------------------------------- actions
\* the values a call may pass for each keyword argument (None: not passed)
ModeArgs == { None, "slice" }
NumProbesArgs == { NoneInt } \cup (2..(MaxNumProbes - 1))
StrideArgs == { NoneInt, 2, 3, 4 }
SliceStartArgs == { NoneInt } \cup (1..MaxSliceStart)

\* lines 114-121: an explicit argument takes precedence over the instance default
Resolve(arg, default, none) == IF arg = none THEN default ELSE arg

\* line 132: assert (stride == 2) or (stride == 4), reached when stride != 1
StrideAccepted(stride) == stride = 1 \/ stride = 2 \/ stride = 4

\* the locals of a call after lines 114-135
Frame(obj, self, slice_start_arg, num_probes_arg, mode_arg, stride_arg) ==
    LET With(stride) ==
            [ NoLoc EXCEPT
                !.slice_start = Resolve(slice_start_arg, self.slice_start, NoneInt),
                !.num_probes = Resolve(num_probes_arg, self.num_probes, NoneInt),
                !.mode = Resolve(mode_arg, self.mode, None),
                !.stride = stride,
                !.shape = IF StrideAccepted(stride)
                          THEN WorkingDensity(obj, stride).shape ELSE <<0, 0, 0>> ]
    IN  With(Resolve(stride_arg, self.stride, NoneInt))

SearchOf(self, res, include_atomic_edges) ==
    [ impl |-> self.implementation, cutoff |-> self.cutoff,
      include_atomic_edges |-> include_atomic_edges, atoms |-> res.atoms,
      edge_index |-> res.edge_index, cell_offsets |-> res.cell_offsets ]

ErrorNames(err) ==
    CASE err = "NotImplementedError" -> "implementation"
      [] err = "UnboundLocalError" -> "atomic_numbers"
      [] err = "ValueError" -> "index"
      [] OTHER -> "stride"

Raise(err, l, s, n) ==
    /\ data_object' = data_object
    /\ pc' = "raised"
    /\ loc' = l
    /\ search' = s
    /\ outcome' = [ kind |-> "raised", error |-> err, names |-> ErrorNames(err),
                    shortcut |-> FALSE, searches |-> n ]

Return(obj, l, s, n) ==
    /\ data_object' = obj
    /\ pc' = "ready"
    /\ loc' = l
    /\ search' = s
    /\ outcome' = [ kind |-> "returned", error |-> None, names |-> None,
                    shortcut |-> FALSE, searches |-> n ]

\* lines 137-152 and 187-200 for one choice of flattened indices ('random', 'slice')
SampleAndAttach(frame, flat) ==
    IF ~unravel_ok(flat, frame.shape)
    THEN Raise("ValueError", [frame EXCEPT !.probe_choice = flat], search, 0)
    ELSE \E density \in { WorkingDensity(data_object, frame.stride) } :
         \E choice \in { Unravel(flat, density.shape) } :
         \E res \in { get_edges_from_choice(
                          adder, choice, calculate_grid_pos(density.shape, data_object.cell),
                          HostAtoms(data_object), adder.include_atomic_edges) } :
            IF res.raised # None
            THEN Raise(res.raised, [frame EXCEPT !.probe_choice = flat], search, 0)
            ELSE Return(Attach(data_object,
                               NewProbeData(data_object, density, choice, res.atomic_numbers,
                                            res.probe_pos, res.edge_index, res.cell_offsets)),
                        [ frame EXCEPT !.probe_choice = flat,
                                       !.probe_edges = res.edge_index,
                                       !.probe_offsets = res.cell_offsets,
                                       !.atomic_numbers = res.atomic_numbers,
                                       !.probe_pos = res.probe_pos ],
                        SearchOf(adder, res, adder.include_atomic_edges), 1)

\* __call__ on a record whose probe graph has been precomputed (lines 109-111)
CallPrecomputed ==
    /\ pc = "ready"
    /\ query = NoQuery
    /\ Precomputed(data_object)
    /\ \E slice_start_arg \in SliceStartArgs, num_probes_arg \in NumProbesArgs,
          mode_arg \in ModeArgs, stride_arg \in StrideArgs :
          /\ data_object' = data_object
          /\ outcome' = [ kind |-> "returned", error |-> None, names |-> None,
                          shortcut |-> TRUE, searches |-> 0 ]
          /\ loc' = NoLoc
    /\ pre' = data_object
    /\ UNCHANGED <<build, adder, pc, search, query>>

\* __call__ with a stride the assertion of line 132 rejects
CallBadStride ==
    /\ pc = "ready"
    /\ query = NoQuery
    /\ ~Precomputed(data_object)
    /\ \E num_probes_arg \in NumProbesArgs, mode_arg \in ModeArgs, stride_arg \in StrideArgs :
       \E frame \in { Frame(data_object, adder, NoneInt, num_probes_arg, mode_arg,
                            stride_arg) } :
          /\ ~StrideAccepted(frame.stride)
          /\ Raise("AssertionError", frame, search, 0)
    /\ pre' = data_object
    /\ UNCHANGED <<build, adder, query>>

\* __call__ in 'random' mode (lines 137-144, 187-200)
CallRandom ==
    /\ pc = "ready"
    /\ query = NoQuery
    /\ ~Precomputed(data_object)
    /\ \E num_probes_arg \in NumProbesArgs, mode_arg \in ModeArgs, stride_arg \in StrideArgs :
       \E frame \in { Frame(data_object, adder, NoneInt, num_probes_arg, mode_arg,
                            stride_arg) } :
          /\ StrideAccepted(frame.stride)
          /\ frame.mode = "random"
          /\ \E flat \in RandomDraws(Prod3(frame.shape), frame.num_probes) :
                SampleAndAttach(frame, flat)
    /\ pre' = data_object
    /\ UNCHANGED <<build, adder, query>>

\* __call__ in 'slice' mode (lines 146-152, 187-200)
CallSlice ==
    /\ pc = "ready"
    /\ query = NoQuery
    /\ ~Precomputed(data_object)
    /\ \E slice_start_arg \in SliceStartArgs, num_probes_arg \in NumProbesArgs,
          mode_arg \in ModeArgs, stride_arg \in StrideArgs :
       \E frame \in { Frame(data_object, adder, slice_start_arg, num_probes_arg, mode_arg,
                            stride_arg) } :
          /\ StrideAccepted(frame.stride)
          /\ frame.mode = "slice"
          /\ SampleAndAttach(frame, arange(frame.slice_start,
                                           frame.slice_start + frame.num_probes))
    /\ pre' = data_object
    /\ UNCHANGED <<build, adder, query>>

\* __call__ in 'all' mode up to the loop (lines 153-164)
CallAll ==
    /\ pc = "ready"
    /\ query = NoQuery
    /\ ~Precomputed(data_object)
    /\ \E num_probes_arg \in NumProbesArgs, mode_arg \in ModeArgs, stride_arg \in StrideArgs :
       \E frame \in { Frame(data_object, adder, NoneInt, num_probes_arg, mode_arg,
                            stride_arg) } :
          /\ StrideAccepted(frame.stride)
          /\ frame.mode = "all"
          /\ loc' = [ frame EXCEPT
                        !.total_probes = Prod3(frame.shape),
                        !.num_blocks = NumBlocks(Prod3(frame.shape), frame.num_probes),
                        !.atomic_numbers = data_object.atomic_numbers ]
    /\ pc' = "loop"
    /\ outcome' = [ NoOutcome EXCEPT !.kind = "running" ]
    /\ pre' = data_object
    /\ UNCHANGED <<build, data_object, adder, search, query>>

\* one iteration of the loop of 'all' mode (lines 166-182)
AllBlock ==
    /\ pc = "loop"
    /\ loc.i < loc.num_blocks
    /\ \E flat \in { BlockChoice(loc.i, loc.num_blocks, loc.num_probes, loc.total_probes) } :
          IF ~unravel_ok(flat, loc.shape)
          THEN Raise("ValueError", loc, search, outcome.searches)
          ELSE \E res \in { get_edges_from_choice(
                                adder, Unravel(flat, loc.shape),
                                calculate_grid_pos(loc.shape, data_object.cell),
                                HostAtoms(data_object), adder.include_atomic_edges) } :
                  IF res.raised # None
                  THEN Raise(res.raised, loc, search, outcome.searches)
                  ELSE /\ loc' = [ loc EXCEPT
                                     !.i = @ + 1,
                                     !.probe_edges =
                                         @ \o ShiftTargets(res.edge_index,
                                                           loc.i * loc.num_probes),
                                     !.probe_offsets = @ \o res.cell_offsets,
                                     !.atomic_numbers =
                                         @ \o [ k \in 1..Len(res.probe_pos) |-> 0 ],
                                     !.probe_pos = @ \o res.probe_pos,
                                     !.blocks = Append(@, flat) ]
                       /\ search' = SearchOf(adder, res, adder.include_atomic_edges)
                       /\ outcome' = [ outcome EXCEPT !.searches = @ + 1 ]
                       /\ UNCHANGED <<data_object, pc>>
    /\ UNCHANGED <<build, adder, pre, query>>

\* 'all' mode after the loop (lines 184-200)
AllFinish ==
    /\ pc = "loop"
    /\ loc.i = loc.num_blocks
    /\ \E density \in { WorkingDensity(data_object, loc.stride) } :
       \E flat \in { arange(0, Prod3(density.shape)) } :
          Return(Attach(data_object,
                        NewProbeData(data_object, density, Unravel(flat, density.shape),
                                     loc.atomic_numbers, loc.probe_pos, loc.probe_edges,
                                     loc.probe_offsets)),
                 [ loc EXCEPT !.probe_choice = flat ], search, outcome.searches)
    /\ UNCHANGED <<build, adder, pre, query>>

\* __call__ with a mode none of the three branches takes: line 189 reads
\* atomic_numbers, which no branch has assigned
CallOtherMode ==
    /\ pc = "ready"
    /\ query = NoQuery
    /\ ~Precomputed(data_object)
    /\ \E num_probes_arg \in NumProbesArgs, mode_arg \in ModeArgs, stride_arg \in StrideArgs :
       \E frame \in { Frame(data_object, adder, NoneInt, num_probes_arg, mode_arg,
                            stride_arg) } :
          /\ StrideAccepted(frame.stride)
          /\ frame.mode \notin { "random", "slice", "all" }
          /\ Raise("UnboundLocalError", frame, search, 0)
    /\ pre' = data_object
    /\ UNCHANGED <<build, adder, query>>

\* the call a wrapper built with the adder's cutoff answers when asked for all
\* neighbours with the cutoff `asked`
QueryResult(self, awp, asked) ==
    IF self.implementation = "ASE"
    THEN Ase_get_all_neighbors(AseNeighborListWrapper(self.cutoff, awp), asked,
                               self.include_atomic_edges)
    ELSE RGPBC_get_all_neighbors(RadiusGraphPBCWrapper(self.cutoff, awp, RGPBC_default_pbc),
                                 asked, self.include_atomic_edges)

\* a wrapper built on the host structure and the first grid point, then asked
\* for all neighbours with a cutoff of the caller's choice
WrapperQuery ==
    /\ pc = "ready"
    /\ outcome.kind = "none"
    /\ query = NoQuery
    /\ adder.implementation \in { "ASE", "RGPBC" }
    /\ \E asked \in 1..MaxCutoff :
       \E res \in { QueryResult(adder,
                                atoms_with_probes(HostAtoms(data_object), << <<0, 0, 0>> >>),
                                asked) } :
          query' = [ impl |-> adder.implementation, built |-> adder.cutoff,
                     asked |-> asked, raised |-> res.raised,
                     returned |-> (res.raised = None) ]
    /\ UNCHANGED <<build, data_object, adder, pc, loc, search, outcome, pre>>

Next ==
    \/ CallPrecomputed
    \/ CallBadStride
    \/ CallRandom
    \/ CallSlice
    \/ CallAll
    \/ AllBlock
    \/ AllFinish
    \/ CallOtherMode
    \/ WrapperQuery

Spec == Init /\ [][Next]_vars

\* ---------------------------------------------------- build_charge_lmdb
\* the builtin `object`, the argument of line 62: a type with none of the
\* attributes of a data object
PyObject == [ attrs |-> {} ]

\* what os.listdir(inpath) may list: a directory whose CHGCAR reads as a
\* calculation, or an entry whose CHGCAR cannot be read
Directories ==
    { [ chgcar |-> TRUE, calc |-> r ] : r \in OneAtomRecords }
    \cup { [ chgcar |-> FALSE, calc |-> CHOOSE r \in OneAtomRecords : TRUE ] }
RECURSIVE Listings(_)
Listings(n) ==
    IF n = 0 THEN { <<>> }
    ELSE Listings(n - 1)
         \cup { Append(l, d) : l \in { m \in Listings(n - 1) : Len(m) = n - 1 },
                               d \in Directories }
\* the adders handed to the builder: 'slice' mode, either strategy
BuilderAdders == { AdderOf(1, MaxCutoff, FALSE, "slice", impl) : impl \in { "ASE", "RGPBC" } }
BuilderStrides == { 1, 2 }

\* ProbeGraphAdder.__call__(obj) with no overrides, as a function of its
\* argument, for an adder in 'slice' mode: the shortcut of lines 109-111, the
\* attribute read of line 124, then lines 129-152 and 187-200
ProbeGraphAdder_call(self, obj) ==
    IF Precomputed(obj)
    THEN [ raised |-> None, value |-> obj ]
    ELSE IF ~hasattr(obj, "atomic_numbers")
    THEN [ raised |-> "AttributeError", value |-> obj ]
    ELSE IF ~StrideAccepted(self.stride)
    THEN [ raised |-> "AssertionError", value |-> obj ]
    ELSE LET With(density, flat) ==
                 IF ~unravel_ok(flat, density.shape)
                 THEN [ raised |-> "ValueError", value |-> obj ]
                 ELSE LET Got(choice) ==
                              LET Fin(res) ==
                                      IF res.raised # None
                                      THEN [ raised |-> res.raised, value |-> obj ]
                                      ELSE [ raised |-> None,
                                             value  |-> Attach(obj, NewProbeData(
                                                 obj, density, choice, res.atomic_numbers,
                                                 res.probe_pos, res.edge_index,
                                                 res.cell_offsets)) ]
                              IN  Fin(get_edges_from_choice(
                                          self, choice,
                                          calculate_grid_pos(density.shape, obj.cell),
                                          HostAtoms(obj), self.include_atomic_edges))
                      IN  Got(Unravel(flat, density.shape))
         IN  With(WorkingDensity(obj, self.stride),
                  arange(self.slice_start, self.slice_start + self.num_probes))

\* lines 51-59: the data object of one directory: a2g.convert(atoms) with the
\* (strided) density attached
ConvertedObject(dir, stride) ==
    [ dir.calc EXCEPT !.charge_density =
        IF stride # 1 THEN Downsample(dir.calc.charge_density, stride)
        ELSE dir.calc.charge_density ]

\* txn.put(key, value); txn.commit() for an integer key
PutRecord(db, key, value) ==
    [ db EXCEPT !.records = [ k \in (DOMAIN db.records) \cup {key} |->
                                IF k = key THEN value ELSE db.records[k] ] ]

\* the arguments of a run and the state after lines 25-46: the store is open
\* and empty, the loop has not begun
BuildInit ==
    /\ \E listing \in Listings(MaxDirs), given \in BOOLEAN, stride \in BuilderStrides :
          build = [ NoBuild EXCEPT !.pc = "loop", !.inpath = listing, !.stride = stride,
                                   !.given = given ]
    /\ adder \in BuilderAdders
    /\ data_object = PyObject
    /\ pre = data_object
    /\ pc = "ready"
    /\ loc = NoLoc
    /\ search = NoSearch
    /\ outcome = NoOutcome
    /\ query = NoQuery

\* one iteration of the loop (lines 47-66)
BuildDirectory ==
    /\ build.pc = "loop"
    /\ build.next < Len(build.inpath)
    /\ \E fid \in { build.next } :
       \E dir \in { build.inpath[fid + 1] } :
          IF ~dir.chgcar
          THEN /\ build' = [ build EXCEPT !.pc = "raised", !.fid = fid, !.next = fid + 1,
                                          !.error = "FileNotFoundError" ]
               /\ data_object' = data_object
          ELSE \E converted \in { ConvertedObject(dir, build.stride) } :
                  IF ~build.given
                  THEN /\ build' = [ build EXCEPT !.fid = fid, !.next = fid + 1,
                                                  !.db = PutRecord(@, fid, converted) ]
                       /\ data_object' = converted
                  ELSE \E res \in { ProbeGraphAdder_call(adder, PyObject) } :
                          IF res.raised # None
                          THEN /\ build' = [ build EXCEPT
                                               !.pc = "raised", !.fid = fid, !.next = fid + 1,
                                               !.error = res.raised,
                                               !.calls = Append(@, [ arg |-> PyObject,
                                                                     local |-> converted ]) ]
                               /\ data_object' = converted
                          ELSE /\ build' = [ build EXCEPT
                                               !.fid = fid, !.next = fid + 1,
                                               !.db = PutRecord(@, fid, res.value),
                                               !.calls = Append(@, [ arg |-> PyObject,
                                                                     local |-> converted ]) ]
                               /\ data_object' = res.value
    /\ UNCHANGED <<adder, pc, loc, search, outcome, pre, query>>

\* after the loop (lines 69-75): the 'length' key; fid is unbound when the loop
\* body never ran
BuildFinish ==
    /\ build.pc = "loop"
    /\ build.next = Len(build.inpath)
    /\ IF build.fid = NoneInt
       THEN build' = [ build EXCEPT !.pc = "raised", !.error = "UnboundLocalError" ]
       ELSE build' = [ build EXCEPT !.pc = "done", !.db.length = build.fid + 1 ]
    /\ UNCHANGED <<data_object, adder, pc, loc, search, outcome, pre, query>>

BuildNext ==
    \/ BuildDirectory
    \/ BuildFinish

BuildSpec == BuildInit /\ [][BuildNext]_vars

\* ------------------------------------------------ notions of the claims
\* the searches the adder has made: `search` holds the structure handed to the
\* strategy (atoms first, probes appended) and the EdgeSet it returned
Searched == search.impl # None
SearchNodes == 0..(Len(search.atoms.numbers) - 1)
IsAtomNode(n) == search.atoms.numbers[n + 1] # 0
IsProbeNode(n) == search.atoms.numbers[n + 1] = 0
EdgeIds == 1..Len(search.edge_index)

\* squared distance from node a to the image of node b translated by S cells
ImageD2(a, b, S) ==
    LET D2(d) == Dot3(d, d)
    IN  D2(Sub3(Add3(search.atoms.positions[b + 1], VecMat(S, search.atoms.cell)),
                search.atoms.positions[a + 1]))
\* every translation that can bring a point of the cell within the cutoff of
\* another point of the cell
Images ==
    LET Box(r) == ((0 - r[1])..r[1]) \X ((0 - r[2])..r[2]) \X ((0 - r[3])..r[3])
    IN  Box(Replications(search.cutoff, search.atoms.cell))
InRange(d2) == d2 * EpsilonDen > EpsilonNum /\ d2 <= search.cutoff * search.cutoff

\* squared real distance of edge k of the record convention: the source at its
\* position, the target moved back by its offset (offset = minus the translation
\* applied to the target), i.e. |pos[source] - pos[target] + offset . cell|^2
EdgeD2(k) ==
    LET D2(d) == Dot3(d, d)
    IN  D2(Add3(Sub3(search.atoms.positions[search.edge_index[k][1] + 1],
                     search.atoms.positions[search.edge_index[k][2] + 1]),
                VecMat(search.cell_offsets[k], search.atoms.cell)))

\* C1: whenever some periodic image of probe p lies at squared distance in
\* (epsilon, cutoff^2] from atom a, the EdgeSet holds an edge (a, p, offset);
\* for both strategies and along every cell axis.
C1_NeighbourCompleteness ==
    Searched =>
        \A a \in SearchNodes : \A p \in SearchNodes :
            ( /\ IsAtomNode(a)
              /\ IsProbeNode(p)
              /\ \E S \in Images : InRange(ImageD2(a, p, S)) )
            => \E k \in EdgeIds : search.edge_index[k] = <<a, p>>

\* C2: every edge of the EdgeSet has a real periodic distance d with
\* epsilon < d^2 <= cutoff^2, for both strategies; no edge joins coincident points.
C2_EdgeDistance ==
    Searched => \A k \in EdgeIds : InRange(EdgeD2(k))

\* C3: every edge's source is a real atom, so no probe-probe edge exists; and
\* when include_atomic_edges is false every edge's target is a probe.
C3_NoProbeProbeEdge ==
    Searched =>
        \A k \in EdgeIds :
            /\ search.edge_index[k][1] \in SearchNodes
            /\ search.edge_index[k][2] \in SearchNodes
            /\ IsAtomNode(search.edge_index[k][1])
            /\ ~search.include_atomic_edges => IsProbeNode(search.edge_index[k][2])

\* C3 witness: the cell-list strategy without atomic edges returned edges for a
\* structure in which two atoms are neighbours of one another
C3_Witness ==
    /\ Searched
    /\ search.impl = "ASE"
    /\ ~search.include_atomic_edges
    /\ EdgeIds # {}
    /\ \E a \in SearchNodes : \E b \in SearchNodes :
          /\ a # b /\ IsAtomNode(a) /\ IsAtomNode(b)
          /\ \E S \in Images : ImageD2(a, b, S) < search.cutoff * search.cutoff

\* C4: with include_atomic_edges set, the EdgeSet also holds the atom-atom pairs
\* that lie within the cutoff, whichever strategy is configured.
C4_AtomicEdgesIncluded ==
    (Searched /\ search.include_atomic_edges) =>
        \A a \in SearchNodes : \A b \in SearchNodes :
            ( /\ a # b
              /\ IsAtomNode(a)
              /\ IsAtomNode(b)
              /\ \E S \in Images : /\ ImageD2(a, b, S) * EpsilonDen > EpsilonNum
                                   /\ ImageD2(a, b, S) < search.cutoff * search.cutoff )
            => \E k \in EdgeIds : search.edge_index[k] = <<a, b>>

\* ---------------------------------------------- the calls of the adder
\* a record carries a complete probe graph: probe_data with both fields
CarriesGraph(obj) ==
    /\ "probe_data" \in obj.attrs
    /\ {"edge_index", "cell_offsets"} \subseteq obj.probe_data.attrs
\* the last call has ended (it is not inside the loop of 'all' mode)
CallEnded == outcome.kind \in { "returned", "raised" }
\* the last call ran to the end and attached a probe_data object
Assembled == outcome.kind = "returned" /\ ~outcome.shortcut
\* the number of real atoms of the host record
NumHostAtoms == Len(pre.pos)
\* grid position and density value of grid index idx of the working grid of the
\* last call: the fractional index through the cell, and the raw density at
\* stride times the index
GridPoint(idx) == calculate_grid_pos(loc.shape, pre.cell)[idx]
DensityAt(idx) ==
    pre.charge_density.chg[<<idx[1] * loc.stride, idx[2] * loc.stride, idx[3] * loc.stride>>]
\* the flattened row-major index of a grid index
Ravel(idx) == (idx[1] * loc.shape[2] + idx[2]) * loc.shape[3] + idx[3]
Min(a, b) == IF a < b THEN a ELSE b
RECURSIVE Concat(_)
Concat(ss) == IF ss = <<>> THEN <<>> ELSE Head(ss) \o Concat(Tail(ss))

\* C5: a call on a record whose probe_data carries both edge_index and
\* cell_offsets returns the record unchanged and performs no neighbour search,
\* whatever overrides are passed; a call that returns on any other record has
\* computed the graph and attached it, and a call that raises leaves the
\* record as it was.
C5_Idempotence ==
    CallEnded =>
        /\ outcome.kind = "raised" => data_object = pre
        /\ CarriesGraph(pre) =>
              /\ outcome.kind = "returned"
              /\ data_object = pre
              /\ outcome.searches = 0
        /\ (~CarriesGraph(pre) /\ outcome.kind = "returned") =>
              /\ outcome.searches >= 1
              /\ CarriesGraph(data_object)
              /\ data_object.probe_data.edge_index = loc.probe_edges
              /\ data_object.probe_data.cell_offsets = loc.probe_offsets

\* C5 witness: a second call on a record whose non-empty graph an earlier call
\* attached has taken the shortcut
C5_Witness ==
    /\ outcome.kind = "returned"
    /\ outcome.shortcut
    /\ CarriesGraph(pre)
    /\ pre.probe_data.neighbors > 0

\* C6: in 'all' mode with T grid points and block size num_probes, block i
\* (0-based) is exactly the flattened indices [i*num_probes,
\* min((i+1)*num_probes, T)), no block reaches past the grid, and after the last
\* block the probes are the flattened indices 0..T-1, each once, in increasing
\* order.
C6_AllModeBlocks ==
    loc.mode = "all" =>
        /\ \A b \in 1..Len(loc.blocks) :
              loc.blocks[b] = arange((b - 1) * loc.num_probes,
                                     Min(b * loc.num_probes, Prod3(loc.shape)))
        /\ outcome.error # "ValueError"
        /\ Assembled =>
              /\ Concat(loc.blocks) = arange(0, Prod3(loc.shape))
              /\ Len(data_object.probe_data.pos) = NumHostAtoms + Prod3(loc.shape)
              /\ \A idx \in GridIndices(loc.shape) :
                    data_object.probe_data.pos[NumHostAtoms + Ravel(idx) + 1] = GridPoint(idx)

\* C6 witness: an 'all' call has finished over a grid the block size does not
\* divide, in more than one block
C6_Witness ==
    /\ loc.mode = "all"
    /\ Assembled
    /\ Len(loc.blocks) >= 2
    /\ Prod3(loc.shape) % loc.num_probes # 0

\* C7: in 'slice' mode with start S and count N a call that returns has selected
\* exactly the flattened indices S..S+N-1, unraveled row-major, in that order.
C7_SliceSelection ==
    (loc.mode = "slice" /\ Assembled) =>
        /\ Len(data_object.probe_data.pos) = NumHostAtoms + loc.num_probes
        /\ Len(data_object.probe_data.target) = loc.num_probes
        /\ \A k \in 1..loc.num_probes :
              \E idx \in GridIndices(loc.shape) :
                  /\ Ravel(idx) = loc.slice_start + k - 1
                  /\ data_object.probe_data.pos[NumHostAtoms + k] = GridPoint(idx)
                  /\ data_object.probe_data.target[k] = DensityAt(idx)

\* C7 witness: a slice of at least two probes starting past the first grid
\* point has been assembled
C7_Witness ==
    /\ loc.mode = "slice"
    /\ Assembled
    /\ loc.slice_start >= 1
    /\ loc.num_probes >= 2

\* C8: after any call that assembles a graph there is exactly one target per
\* probe, and the k-th target is the (strided) density at the grid index whose
\* grid position is the k-th probe's position.
C8_TargetAlignment ==
    Assembled =>
        /\ Len(data_object.probe_data.target) = Len(data_object.probe_data.pos) - NumHostAtoms
        /\ Len(data_object.probe_data.atomic_numbers) = Len(data_object.probe_data.pos)
        /\ \A k \in 1..Len(data_object.probe_data.target) :
              /\ data_object.probe_data.atomic_numbers[NumHostAtoms + k] = 0
              /\ \E idx \in GridIndices(loc.shape) :
                    /\ data_object.probe_data.pos[NumHostAtoms + k] = GridPoint(idx)
                    /\ data_object.probe_data.target[k] = DensityAt(idx)

\* C8 witness: an 'all' call over a strided grid of several points has attached
\* its targets
C8_Witness ==
    /\ loc.mode = "all"
    /\ Assembled
    /\ loc.stride = 2
    /\ Len(data_object.probe_data.target) >= 2

\* C9: a call whose mode is none of 'random', 'slice', 'all' ends in an error
\* that names the mode, and attaches no graph.
C9_UnsupportedModeReported ==
    ( /\ CallEnded
      /\ ~outcome.shortcut
      /\ loc.mode \notin { "random", "slice", "all" }
      /\ outcome.error # "AssertionError" )
    => /\ outcome.kind = "raised"
       /\ outcome.names = "mode"
       /\ data_object = pre

\* C10: asking a wrapper for all neighbours with a cutoff other than the one it
\* was built with fails, for both strategies: no EdgeSet is returned.
C10_CutoffMismatchFails ==
    (query.impl # None /\ query.asked # query.built) =>
        /\ query.raised # None
        /\ ~query.returned

\* --------------------------------------------------- the dataset builder
\* the run of build_charge_lmdb has ended, normally or in an exception
BuildEnded == build.pc \in { "done", "raised" }
StoredKeys == DOMAIN build.db.records

\* C11: at the end of any run of build_charge_lmdb (empty directory and failing
\* directories included) the 'length' key holds the number of records stored
\* and the records are stored under the keys 0..length-1.
C11_LengthConsistent ==
    BuildEnded =>
        /\ build.db.length = Cardinality(StoredKeys)
        /\ StoredKeys = 0..(build.db.length - 1)

\* C12: when a ProbeGraphAdder is given, every invocation of the adder is on the
\* data object of the calculation at hand, a directory whose CHGCAR was read
\* gets a record, and every record written carries the probe graph of its
\* calculation.
C12_AdderOnDataObject ==
    build.given =>
        /\ \A c \in 1..Len(build.calls) : build.calls[c].arg = build.calls[c].local
        /\ \A n \in 1..build.next :
              build.inpath[n].chgcar =>
                  /\ (n - 1) \in StoredKeys
                  /\ CarriesGraph(build.db.records[n - 1])
                  /\ build.db.records[n - 1].pos = build.inpath[n].calc.pos
        /\ \A k \in StoredKeys : CarriesGraph(build.db.records[k])

\* ------------------------------------------ block shift and offset sign
\* the loop of 'all' mode has taken at least one block in the last call; the
\* last block taken is block loc.i - 1 and `search` is its neighbour search
BlockTaken ==
    /\ loc.mode = "all"
    /\ loc.i >= 1
    /\ outcome.kind \in { "running", "returned" }
    /\ Searched
\* the edge of block i with block-local indices e, in the global ordering:
\* atoms keep their index, the j-th probe of block i is probe i*num_probes + j
GlobalEdge(e, i) ==
    << e[1], IF IsProbeNode(e[2]) THEN e[2] + i * loc.num_probes ELSE e[2] >>

\* C13: in 'all' mode every edge a block contributes to the concatenated edge
\* list is the edge its neighbour search found, carried to the global ordering:
\* atom-side index unchanged, probe-side index of block i shifted by
\* i*num_probes; for every block, both strategies, either flag value; and the
\* final record holds that list.
C13_BlockShift ==
    BlockTaken =>
        /\ Len(loc.probe_edges) >= Len(search.edge_index)
        /\ \A k \in EdgeIds :
              loc.probe_edges[Len(loc.probe_edges) - Len(search.edge_index) + k]
                  = GlobalEdge(search.edge_index[k], loc.i - 1)
        /\ Assembled => data_object.probe_data.edge_index = loc.probe_edges

\* C14: every offset the cell-list strategy returns is the negation of the
\* offset the neighbour-list library stores for that neighbour: for each edge
\* (a, b, offset) the library lists b among the neighbours of a with the
\* translation -offset.
C14_AseOffsetNegated ==
    (Searched /\ search.impl = "ASE") =>
        \A a \in SearchNodes :
            LET Listed(entries) ==
                    \A k \in EdgeIds :
                        search.edge_index[k][1] = a =>
                            \E n \in 1..Len(entries) :
                                /\ entries[n].idx = search.edge_index[k][2]
                                /\ entries[n].offset = Neg3(search.cell_offsets[k])
            IN  IsAtomNode(a) =>
                    Listed(NewPrimitiveNeighborList_get_neighbors(
                               search.cutoff, search.atoms, a))

====
